---- MODULE Spec2Model ----
(***************************************************************************)
(* Price resolution, caching and throttled batch refresh of the portfolio  *)
(* tracker (src/app.py): get_cached_price, cache_price,                    *)
(* fetch_price_alpha_vantage with its three query shapes, ensure_price and *)
(* the "Update prices" loop of the Overview page.                          *)
(*                                                                         *)
(* Encodings.  Prices are positive integers (fixed-point amounts).  A JSON *)
(* field of a provider body is Absent (missing or None: falsy, and float   *)
(* of it raises), Garbage (a non-numeric string) or a price.  An as-of     *)
(* string is a number whose order is the lexicographic order of strings:   *)
(*    EmptyStr            ""   (what tier 1 yields without a trading day)  *)
(*    JunkStr             a non-empty string that is no date               *)
(*    Iso(d)   = 2d       "YYYY-MM-DD" of day d                            *)
(*    Stamp(d) = 2d + 1   "YYYY-MM-DDT00:00:00" of day d                   *)
(*                                                                         *)
(* Amounts of the valuation are fixed-point, Tick steps finer than each    *)
(* rounding step: a price is a number of ten-thousandths (what round(4)    *)
(* keeps), a cost basis a number of 1/Tick ten-thousandths, a quantity a   *)
(* number of 100/Tick shares; price times quantity is then a number of     *)
(* 1/Tick hundredths (round(2) keeps hundredths).                          *)
(***************************************************************************)
EXTENDS Integers, Sequences, FiniteSets, TLC

VARIABLES
    ALPHAVANTAGE_KEY,  \* TRUE iff the provider key is a non-empty string
    provider,          \* repertoire of the provider stub: "small" or "full"
    today,             \* date.today()
    prices_daily,      \* rows of table prices_daily, in insertion order
    syms,              \* df["symbol"].tolist() of the holdings
    quantity,          \* df["quantity"], by symbol
    cost_basis,        \* df["cost_basis"], by symbol
    clicks,            \* "Update prices" clicks the session makes
    runs,              \* number of "Update prices" clicks so far
    force,             \* the "Force refresh" checkbox of the running batch
    pc,                \* position of the Overview handler
    i,                 \* index of the symbol being processed
    prices,            \* dict prices of the handler
    last_asof,         \* dict last_asof of the handler
    calls_made,        \* counter calls_made of the handler
    errors,            \* st.error messages of the batch: <<symbol, reason>>
    warning,           \* st.warning message of the batch
    now,               \* clock, in seconds since the click
    latency,           \* seconds one requests.get takes
    reqTimes,          \* times of the requests.get calls of the batch
    slept,             \* total time spent in time.sleep during the batch
    cache0,            \* prices_daily when the running ensure_price began
    cached,            \* row read by ensure_price (NoRow if none or not read)
    clientCalls,       \* fetch_price_alpha_vantage calls of the running ensure_price
    reqs,              \* tiers requested by the running fetch_price_alpha_vantage
    body,              \* last response body received by the running fetch
    quote,             \* (price, asof) returned by fetch_price_alpha_vantage
    ret,               \* outcome of the running ensure_price
    results,           \* per-symbol outcomes of the batch, in processing order
    df,                \* computed columns of df, one row per holding
    totals,            \* total_value, total_cost, total_pnl
    fetched_today      \* by symbol, the as-of string of its last fetch of the day

vars == <<ALPHAVANTAGE_KEY, provider, today, prices_daily, syms, quantity,
          cost_basis, clicks, runs, force, pc, i, prices, last_asof,
          calls_made, errors, warning, now, latency, reqTimes, slept, cache0,
          cached, clientCalls, reqs, body, quote, ret, results, df, totals,
          fetched_today>>

---------------------------------------------------------------------------
(* Bounds of the model *)

MaxSyms == 2
MaxDay == 2
MaxPrice == 2
MaxInitRows == 1
MaxRuns == 1
MaxReqDur == 1
MaxReruns == 2
MaxRows == 2
MaxQty == 2
MaxCost == 2

(* Program constants *)

Cooldown == 12
RateWindow == 60
RateLimit == 5

\* steps of an amount per rounding step
Tick == 4

\* the symbols a holding may have, in the order of get_holdings (order by symbol)
SymbolOrder == SubSeq(<<"AAA", "BBB", "CCC", "DDD">>, 1, MaxSyms)
Symbols == {SymbolOrder[k] : k \in 1..Len(SymbolOrder)}
Days == 1..MaxDay
Prices == 1..MaxPrice

Absent == 0
Garbage == -1
FieldVals == {Absent, Garbage} \cup Prices

EmptyStr == 0
JunkStr == 1
Iso(d) == 2 * d
Stamp(d) == 2 * d + 1
AsofStrs == {EmptyStr, JunkStr} \cup {Iso(d) : d \in Days} \cup {Stamp(d) : d \in Days}

NoDate == -1
NoPrice == 0
NoRow == [symbol |-> "", price |-> NoPrice, asof |-> EmptyStr]
Rows == [symbol : Symbols, price : Prices, asof : AsofStrs]

\* min(...) is taken instead
Min(S) == CHOOSE x \in S : \A y \in S : x <= y

\* max(series.keys())
Max(S) == CHOOSE x \in S : \A y \in S : y <= x

\* dict[k] = v
Put(d, k, v) == [s \in DOMAIN d \cup {k} |-> IF s = k THEN v ELSE d[s]]
EmptyDict == [s \in {} |-> 0]

---------------------------------------------------------------------------
(* Response body of the provider *)

DiagFields == {"Information", "Note", "Error Message"}
SeriesRows == [close : {Absent} \cup Prices, adj : {Absent} \cup Prices]
SeriesKeys == {Iso(d) : d \in Days}
\* "Time Series (Daily)": a dict from date strings to rows, of up to two days
AllSeries ==
    UNION {[K -> SeriesRows] : K \in {K \in SUBSET SeriesKeys : Cardinality(K) <= 2}}
NoSeries == CHOOSE s \in AllSeries : DOMAIN s = {}
OneSeries ==
    CHOOSE s \in AllSeries :
        /\ DOMAIN s = {Iso(MaxDay)}
        /\ s[Iso(MaxDay)] = [close |-> MaxPrice, adj |-> MaxPrice]

FailBody == [status |-> "fail", diag |-> {}, px |-> Absent, day |-> EmptyStr,
             series |-> NoSeries]
\* bodies of the GLOBAL_QUOTE shape: a transport failure, any data, or
\* diagnostic fields with or without data beside them
QuoteBodies ==
    {FailBody} \cup
    [status : {"ok"}, diag : {{}}, px : FieldVals,
     day : {EmptyStr} \cup SeriesKeys, series : {NoSeries}] \cup
    [status : {"ok"}, diag : SUBSET DiagFields \ {{}}, px : {Absent, MaxPrice},
     day : {Iso(MaxDay)}, series : {NoSeries}]
\* bodies of the two TIME_SERIES shapes
SeriesBodies ==
    {FailBody} \cup
    [status : {"ok"}, diag : {{}}, px : {Absent},
     day : {EmptyStr}, series : AllSeries] \cup
    [status : {"ok"}, diag : SUBSET DiagFields \ {{}}, px : {Absent},
     day : {EmptyStr}, series : {NoSeries, OneSeries}]

\* the stub's small repertoire: at most the Note signal, one-day series
Small(b) ==
    /\ b.diag \in {{}, {"Note"}}
    /\ b.diag = {"Note"} => (b.px = Absent /\ b.series = NoSeries)
    /\ b.px # Garbage
    /\ b.px = Absent /\ b.diag = {} => b.day = EmptyStr
    /\ Cardinality(DOMAIN b.series) <= 1
    /\ \A k \in DOMAIN b.series : b.series[k].adj = Absent /\ b.series[k].close # Absent

Responses(tier) ==
    LET all == IF tier = 1 THEN QuoteBodies ELSE SeriesBodies
    IN  IF provider = "full" THEN all ELSE {b \in all : Small(b)}

---------------------------------------------------------------------------
(* DB helpers *)

RowsOf(table, symbol) == {k \in 1..Len(table) : table[k].symbol = symbol}

\* select * where symbol = ... order by asof desc limit 1: the rows the query
\* may return (rows with equal asof are in no defined order); {} if none
get_cached_price(table, symbol) ==
    LET mine == RowsOf(table, symbol)
    IN  {table[k] : k \in {k \in mine : \A j \in mine : table[j].asof <= table[k].asof}}

\* the query keeps only rows dated today
FetchedToday(table, symbol) ==
    IF {r \in get_cached_price(table, symbol) : r.asof \div 2 = today} = {} THEN {NoRow}
    ELSE {r \in get_cached_price(table, symbol) : r.asof \div 2 = today}

\* what `cached` may be bound to: a row, or NoRow for None
Fetched(table, symbol) ==
    IF get_cached_price(table, symbol) = {} THEN {NoRow}
    ELSE get_cached_price(table, symbol)

\* the insert is left out
cache_price_skipped(table, symbol, price, asof) == table

\* an upsert on the symbol, as upsert_holding does: the symbol's rows are
\* overwritten
cache_price_upsert(table, symbol, price, asof) ==
    IF RowsOf(table, symbol) = {}
    THEN Append(table, [symbol |-> symbol, price |-> price, asof |-> asof])
    ELSE [k \in 1..Len(table) |->
            IF table[k].symbol = symbol
            THEN [symbol |-> symbol, price |-> price, asof |-> asof]
            ELSE table[k]]

cache_price(table, symbol, price, asof) ==
    Append(table, [symbol |-> symbol, price |-> price, asof |-> asof])

---------------------------------------------------------------------------
(* Alpha Vantage fetcher *)

Return(price, asof) == [kind |-> "return", price |-> price, asof |-> asof, err |-> ""]
Nothing == [kind |-> "none", price |-> NoPrice, asof |-> EmptyStr, err |-> ""]
Raise(err) == [kind |-> "raise", price |-> NoPrice, asof |-> EmptyStr, err |-> err]

\* the key check is left out
KeyCheckSkipped == FALSE

\* if not ALPHAVANTAGE_KEY
KeyMissing == ~ALPHAVANTAGE_KEY

\* only raise_for_status: the diagnostic fields go unchecked
_call_unchecked(b) == IF b.status # "ok" THEN "HTTPError" ELSE ""

\* a diagnostic field counts only in a body that has no data beside it
_call_lenient(b) ==
    IF b.status # "ok" THEN "HTTPError"
    ELSE IF b.px # Absent \/ DOMAIN b.series # {} THEN ""
    ELSE IF "Information" \in b.diag THEN "API info"
    ELSE IF "Note" \in b.diag THEN "Rate limit hit"
    ELSE IF "Error Message" \in b.diag THEN "API error"
    ELSE ""

\* the error _call raises on body b, "" if it returns the decoded body
_call(b) ==
    IF b.status # "ok" THEN "HTTPError"
    ELSE IF "Information" \in b.diag THEN "API info"
    ELSE IF "Note" \in b.diag THEN "Rate limit hit"
    ELSE IF "Error Message" \in b.diag THEN "API error"
    ELSE ""

\* float(x) of a JSON field that is present
Float(x) == IF x = Garbage THEN Raise("ValueError") ELSE Return(x, EmptyStr)

\* the snapshot is not looked at
GlobalQuoteSkipped(b) == Nothing

\* body of the first try block
GlobalQuote(b) ==
    IF _call(b) # "" THEN Raise(_call(b))
    ELSE IF b.px = Absent THEN Nothing
    ELSE IF Float(b.px).kind = "raise" THEN Float(b.px)
    ELSE Return(b.px, b.day)

\* body of the second try block
TimeSeriesDaily(b) ==
    IF _call(b) # "" THEN Raise(_call(b))
    ELSE IF DOMAIN b.series = {} THEN Nothing
    ELSE LET last_date == Max(DOMAIN b.series)
             close == b.series[last_date].close
         IN  IF close = Absent THEN Raise("KeyError")
             ELSE IF Float(close).kind = "raise" THEN Float(close)
             ELSE Return(close, last_date)

\* the third query, outside any try block
TimeSeriesDailyAdjusted(b) ==
    IF _call(b) # "" THEN Raise(_call(b))
    ELSE IF DOMAIN b.series = {} THEN Raise("No time series returned by Alpha Vantage")
    ELSE LET last_date == Max(DOMAIN b.series)
             last_row == b.series[last_date]
             v == IF last_row.adj # Absent THEN last_row.adj ELSE last_row.close
         IN  IF v = Absent THEN Raise("TypeError")
             ELSE IF Float(v).kind = "raise" THEN Float(v)
             ELSE Return(v, last_date)

\* the try block is missing: the exception leaves the fetcher
SwallowNothing(out) == out

\* try: ... except Exception: pass
Swallow(out) == IF out.kind = "raise" THEN Nothing ELSE out

Tier(t, b) ==
    IF t = 1 THEN Swallow(GlobalQuote(b))
    ELSE IF t = 2 THEN Swallow(TimeSeriesDaily(b))
    ELSE TimeSeriesDailyAdjusted(b)

---------------------------------------------------------------------------
(* ensure_price *)

\* parse never raises: a string that is no date yields the default, today
dtparser_parse_default(asof) == IF asof \in {EmptyStr, JunkStr} THEN today ELSE asof \div 2

\* dtparser.parse(str(asof)).date(), NoDate when parse raises
dtparser_parse(asof) == IF asof \in {EmptyStr, JunkStr} THEN NoDate ELSE asof \div 2

\* any cached row counts as today's
CacheFreshAny(row) == TRUE

\* the as-of string is compared with the date without being parsed
CacheFreshUnparsed(row) == FALSE

CacheFresh(row) == dtparser_parse(row.asof) = today

Returned(price, asof, fetched_now) ==
    [kind |-> "return", price |-> price, asof |-> asof,
     fetched_now |-> fetched_now, err |-> ""]
Raised(err) ==
    [kind |-> "raise", price |-> NoPrice, asof |-> EmptyStr,
     fetched_now |-> FALSE, err |-> err]
NoRet ==
    [kind |-> "none", price |-> NoPrice, asof |-> EmptyStr,
     fetched_now |-> FALSE, err |-> ""]
NoQuote == [price |-> NoPrice, asof |-> EmptyStr]

\* ensure_price answers a failed fetch with the row it read, if any
PropagateStale(err, row) ==
    IF row # NoRow THEN Returned(row.price, row.asof, FALSE) ELSE Raised(err)

\* an exception of fetch_price_alpha_vantage leaves ensure_price uncaught
Propagate(err, row) == Raised(err)

---------------------------------------------------------------------------
(* Valuation *)

Quantities == 0..MaxQty
Costs == 0..MaxCost

\* NaN of a float column
NaN == -1

\* df["symbol"].map(prices): NaN for a symbol the dict has not
last_price(symbol) == IF symbol \in DOMAIN prices THEN prices[symbol] ELSE NaN

\* the missing value is kept
fillna_kept(x) == x

\* .fillna(0.0)
fillna(x) == IF x = NaN THEN 0 ELSE x

\* the multiples of unit nearest to x: one, or two when x is half-way between
\* them (the binary float behind x lies on either side of the half)
Nearest(x, unit) ==
    LET lo == (x \div unit) * unit
    IN  IF x = lo THEN {x}
        ELSE IF 2 * (x - lo) < unit THEN {lo}
        ELSE IF 2 * (x - lo) > unit THEN {lo + unit}
        ELSE {lo, lo + unit}

\* the digits after the n-th decimal are cut off
round_down(x) == {x \div Tick}

\* .round(n) of an amount x counted in 1/Tick steps of the n-th decimal: the
\* values it may give, counted in steps of the n-th decimal
round(x) == {m \div Tick : m \in Nearest(x, Tick)}

\* df["quantity"] * df["last_price"].fillna(0.0), in 1/Tick hundredths
market_value(symbol) == quantity[symbol] * fillna(last_price(symbol))

\* df["last_price"].fillna(0.0) - df["cost_basis"], in 1/Tick ten-thousandths
price_less_cost(symbol) == fillna(last_price(symbol)) * Tick - cost_basis[symbol]

\* the values a column of differences, and of their products, may hold
PerShareVals == UNION {round(p * Tick - c) : p \in {0} \cup Prices, c \in Costs}
PnlVals == UNION {round(x * q) : x \in PerShareVals, q \in Quantities}

\* Series.sum()
RECURSIVE sum(_)
sum(column) == IF column = <<>> THEN 0 ELSE Head(column) + sum(Tail(column))

NoTotals == [total_value |-> 0, total_cost |-> 0, total_pnl |-> 0]

---------------------------------------------------------------------------
(* Initial states *)

\* the symbol lists of the holdings table: its first n symbols, n >= 1
\* (an empty table stops the page before the update)
HoldingLists == {SubSeq(SymbolOrder, 1, n) : n \in 1..MaxSyms}

\* no response received yet
NoBody == FailBody

InitTables == UNION {[1..n -> Rows] : n \in 0..MaxInitRows}

\* the symbols of a holdings list
Held(list) == {list[k] : k \in 1..Len(list)}

\* the columns a holding gets from the form when its fields are left alone
Defaults(list) == [s \in Held(list) |-> 0]

Idle ==
    /\ force = FALSE
    /\ pc = "idle"
    /\ i = 1
    /\ prices = EmptyDict
    /\ last_asof = EmptyDict
    /\ calls_made = 0
    /\ errors = <<>>
    /\ warning = ""
    /\ now = 0
    /\ reqTimes = <<>>
    /\ slept = 0
    /\ cache0 = prices_daily
    /\ cached = NoRow
    /\ clientCalls = 0
    /\ reqs = <<>>
    /\ body = NoBody
    /\ quote = NoQuote
    /\ ret = NoRet
    /\ results = <<>>
    /\ df = <<>>
    /\ totals = NoTotals
    /\ fetched_today = EmptyDict

Init ==
    /\ ALPHAVANTAGE_KEY \in BOOLEAN
    /\ provider = "small"
    /\ latency \in 0..MaxReqDur
    /\ runs = 0
    /\ clicks = MaxRuns
    /\ today \in Days
    /\ prices_daily \in InitTables
    /\ syms \in HoldingLists
    /\ quantity = Defaults(syms)
    /\ cost_basis = Defaults(syms)
    /\ Idle

\* one batch over one holding with an empty cache, the provider answering
\* at once with any body
InitFetch ==
    /\ ALPHAVANTAGE_KEY \in BOOLEAN
    /\ provider = "full"
    /\ latency = 0
    /\ runs = MaxRuns - 1
    /\ clicks = MaxRuns
    /\ today \in Days
    /\ prices_daily = <<>>
    /\ syms = <<SymbolOrder[1]>>
    /\ quantity = Defaults(syms)
    /\ cost_basis = Defaults(syms)
    /\ Idle

\* the rows of one symbol
RowsFor(symbol) == {r \in Rows : r.symbol = symbol}

\* several batches over one holding that has up to MaxRows cached rows
InitDays ==
    /\ ALPHAVANTAGE_KEY \in BOOLEAN
    /\ provider = "small"
    /\ latency = 0
    /\ runs = 0
    /\ clicks = MaxReruns
    /\ today \in Days
    /\ prices_daily \in UNION {[1..n -> RowsFor(SymbolOrder[1])] : n \in 0..MaxRows}
    /\ syms = <<SymbolOrder[1]>>
    /\ quantity = Defaults(syms)
    /\ cost_basis = Defaults(syms)
    /\ Idle

\* one batch, within a day, over holdings of any quantity and cost basis,
\* starting with an empty cache
InitValue ==
    /\ ALPHAVANTAGE_KEY \in BOOLEAN
    /\ provider = "small"
    /\ latency = 0
    /\ runs = 0
    /\ clicks = MaxRuns
    /\ today = MaxDay
    /\ prices_daily = <<>>
    /\ syms \in HoldingLists
    /\ quantity \in [Held(syms) -> Quantities]
    /\ cost_basis \in [Held(syms) -> Costs]
    /\ Idle

---------------------------------------------------------------------------
(* The Overview handler with "Update prices" clicked *)

sym == syms[i]

env == <<ALPHAVANTAGE_KEY, provider, latency, syms, quantity, cost_basis, clicks>>
batch == <<prices, last_asof, calls_made, errors, warning, results>>
view == <<df, totals>>
clock == <<now, reqTimes, slept>>
locals == <<cache0, cached, clientCalls, reqs, body, quote, ret>>

\* do_update: the dicts and the counter are set up
Click ==
    /\ pc = "idle"
    /\ runs < clicks
    /\ runs' = runs + 1
    /\ force' \in BOOLEAN
    /\ prices' = EmptyDict
    /\ last_asof' = EmptyDict
    /\ calls_made' = 0
    /\ errors' = <<>>
    /\ warning' = ""
    /\ results' = <<>>
    /\ now' = 0
    /\ reqTimes' = <<>>
    /\ slept' = 0
    /\ i' = 1
    /\ df' = <<>>
    /\ totals' = NoTotals
    /\ pc' = "loop"
    /\ UNCHANGED <<env, today, prices_daily, locals, fetched_today>>

\* for sym in df["symbol"].tolist(): next symbol, calling ensure_price, or exit
ForNext ==
    /\ pc = "loop"
    /\ IF i > Len(syms)
       THEN /\ pc' = "post"
            /\ UNCHANGED locals
       ELSE /\ pc' = "ensure"
            /\ cache0' = prices_daily
            /\ UNCHANGED <<cached, clientCalls, reqs, body, quote, ret>>
    /\ UNCHANGED <<env, today, prices_daily, runs, force, i, batch, clock, view, fetched_today>>

\* the checkbox is ignored
TryCacheAlways == TRUE

\* if not force_refresh
TryCache == ~force

\* where the handler goes on when ensure_price ends with outcome r
After(r) == IF r.kind = "raise" THEN "except" ELSE "got"

\* ensure_price: try the cache first, unless forcing refresh
ensure_price_cache ==
    /\ pc = "ensure"
    /\ IF ~TryCache
       THEN /\ pc' = "fetch"
            /\ UNCHANGED <<cached, ret>>
       ELSE \E row \in Fetched(prices_daily, sym) :
               /\ cached' = row
               /\ IF row # NoRow /\ CacheFresh(row)
                  THEN /\ ret' = Returned(row.price, row.asof, FALSE)
                       /\ pc' = After(ret')
                  ELSE /\ ret' = ret
                       /\ pc' = "fetch"
    /\ UNCHANGED <<env, today, prices_daily, runs, force, i, batch, clock,
                   cache0, clientCalls, reqs, body, quote, view, fetched_today>>

\* fetch_price_alpha_vantage is entered: the key is checked
fetch_key ==
    /\ pc = "fetch"
    /\ clientCalls' = clientCalls + 1
    /\ IF KeyMissing
       THEN /\ ret' = Propagate("Alpha Vantage key missing", cached)
            /\ pc' = After(ret')
       ELSE /\ ret' = ret
            /\ pc' = "tier1"
    /\ UNCHANGED <<env, today, prices_daily, runs, force, i, batch, clock,
                   cache0, cached, reqs, body, quote, view, fetched_today>>

\* one requests.get of tier t and what the tier makes of the response
Request(t) ==
    /\ \E b \in Responses(t) :
          /\ reqs' = Append(reqs, t)
          /\ reqTimes' = Append(reqTimes, now)
          /\ now' = now + latency
          /\ body' = b
          /\ LET out == Tier(t, b)
             IN  IF out.kind = "return"
                 THEN /\ quote' = [price |-> out.price, asof |-> out.asof]
                      /\ ret' = ret
                      /\ pc' = "store"
                 ELSE IF out.kind = "none"
                 THEN /\ quote' = quote
                      /\ ret' = ret
                      /\ pc' = <<"tier2", "tier3", "tier3">>[t]
                 ELSE /\ quote' = quote
                      /\ ret' = Propagate(out.err, cached)
                      /\ pc' = After(ret')
    /\ UNCHANGED <<env, today, prices_daily, runs, force, i, batch, slept,
                   cache0, cached, clientCalls, view, fetched_today>>

\* 1) GLOBAL_QUOTE
fetch_tier1 ==
    /\ pc = "tier1"
    /\ Request(1)

\* 2) TIME_SERIES_DAILY
fetch_tier2 ==
    /\ pc = "tier2"
    /\ Request(2)

\* 3) TIME_SERIES_DAILY_ADJUSTED
fetch_tier3 ==
    /\ pc = "tier3"
    /\ Request(3)

\* ensure_price: cache the new value and return it
ensure_price_store ==
    /\ pc = "store"
    /\ prices_daily' = cache_price(prices_daily, sym, quote.price, quote.asof)
    /\ ret' = Returned(quote.price, quote.asof, TRUE)
    /\ pc' = After(ret')
    /\ UNCHANGED <<env, today, runs, force, i, batch, clock,
                   cache0, cached, clientCalls, reqs, body, quote, view, fetched_today>>

\* the locals of ensure_price and of the fetcher go out of scope
Leave ==
    /\ cache0' = prices_daily
    /\ cached' = NoRow
    /\ clientCalls' = 0
    /\ reqs' = <<>>
    /\ body' = NoBody
    /\ quote' = NoQuote
    /\ ret' = NoRet

\* the sleep is taken out of the `if fetched_now`
PauseAlways(fetched_now) == Cooldown

\* time.sleep after a resolution, in seconds
Pause(fetched_now) == IF fetched_now THEN Cooldown ELSE 0

\* the except block re-raises: the loop is left
ContinueAbort(k) == Len(syms) + 1

\* the symbol processed after the one at index k whose resolution raised
Continue(k) == k + 1

Outcome(kind) ==
    [symbol |-> sym, kind |-> kind, price |-> ret.price, err |-> ret.err,
     calls |-> clientCalls]

\* the try block after ensure_price returned
loop_success ==
    /\ pc = "got"
    /\ IF ret.price # NoPrice
       THEN /\ prices' = Put(prices, sym, ret.price)
            /\ last_asof' = Put(last_asof, sym, ret.asof)
            /\ calls_made' = IF ret.fetched_now THEN calls_made + 1 ELSE calls_made
            /\ now' = now + Pause(ret.fetched_now)
            /\ slept' = slept + Pause(ret.fetched_now)
       ELSE UNCHANGED <<prices, last_asof, calls_made, now, slept>>
    /\ Leave
    /\ results' = Append(results, Outcome(IF ret.fetched_now THEN "fetched" ELSE "cache"))
    /\ i' = i + 1
    /\ pc' = "loop"
    /\ fetched_today' = IF ret.fetched_now THEN Put(fetched_today, sym, ret.asof)
                        ELSE fetched_today
    /\ UNCHANGED <<env, today, prices_daily, runs, force, errors, warning,
                   reqTimes, view>>

\* the except block: report, then fall back to whatever row is cached
loop_except ==
    /\ pc = "except"
    /\ errors' = Append(errors, <<sym, ret.err>>)
    /\ \E row \in Fetched(prices_daily, sym) :
          IF row # NoRow
          THEN /\ prices' = Put(prices, sym, row.price)
               /\ last_asof' = Put(last_asof, sym, row.asof)
          ELSE UNCHANGED <<prices, last_asof>>
    /\ results' = Append(results, Outcome("failed"))
    /\ Leave
    /\ i' = Continue(i)
    /\ pc' = "loop"
    /\ UNCHANGED <<env, today, prices_daily, runs, force, calls_made, warning,
                   clock, view, fetched_today>>

\* after the loop: the batch-level warning, then the merge with cached values
post ==
    /\ pc = "post"
    /\ warning' = IF calls_made = 0 /\ prices = EmptyDict
                  THEN IF KeyMissing THEN "No Alpha Vantage key configured"
                       ELSE "No prices fetched"
                  ELSE ""
    /\ IF prices = EmptyDict
       THEN \E rows \in [1..Len(syms) -> Rows \cup {NoRow}] :
               /\ \A k \in 1..Len(syms) : rows[k] \in Fetched(prices_daily, syms[k])
               /\ prices' = [s \in {syms[k] : k \in {k \in 1..Len(syms) : rows[k] # NoRow}}
                             |-> (CHOOSE r \in {rows[k] : k \in 1..Len(syms)} : r.symbol = s).price]
               /\ last_asof' = [s \in {syms[k] : k \in {k \in 1..Len(syms) : rows[k] # NoRow}}
                             |-> (CHOOSE r \in {rows[k] : k \in 1..Len(syms)} : r.symbol = s).asof]
       ELSE UNCHANGED <<prices, last_asof>>
    /\ pc' = "value"
    /\ UNCHANGED <<env, today, prices_daily, runs, force, i, calls_made, errors,
                   results, clock, locals, view, fetched_today>>

\* the computed columns of df, then the totals
valuation ==
    /\ pc = "value"
    /\ \E per_share \in [1..Len(syms) -> PerShareVals] :
       \E pnl \in [1..Len(syms) -> PnlVals] :
          /\ \A k \in 1..Len(syms) :
                /\ per_share[k] \in round(price_less_cost(syms[k]))
                /\ pnl[k] \in round(per_share[k] * quantity[syms[k]])
          /\ df' = [k \in 1..Len(syms) |->
                      [symbol |-> syms[k],
                       last_price |-> last_price(syms[k]),
                       market_value |-> market_value(syms[k]),
                       pnl_per_share |-> per_share[k],
                       unrealized_pnl |-> pnl[k]]]
          /\ totals' =
                [total_value |-> sum([k \in 1..Len(syms) |-> market_value(syms[k])]),
                 total_cost |-> sum([k \in 1..Len(syms) |->
                                        quantity[syms[k]] * cost_basis[syms[k]]]),
                 total_pnl |-> sum(pnl)]
    /\ pc' = "idle"
    /\ UNCHANGED <<env, today, prices_daily, runs, force, i, batch, clock, locals,
                   fetched_today>>

\* midnight passes between two resolutions
NewDay ==
    /\ pc \in {"idle", "loop"}
    /\ today < MaxDay
    /\ today' = today + 1
    /\ fetched_today' = EmptyDict
    /\ UNCHANGED <<env, prices_daily, runs, force, pc, i, batch, clock, locals, view>>

\* the steps of the handler
Run ==
    \/ Click
    \/ ForNext
    \/ ensure_price_cache
    \/ fetch_key
    \/ fetch_tier1
    \/ fetch_tier2
    \/ fetch_tier3
    \/ ensure_price_store
    \/ loop_success
    \/ loop_except
    \/ post
    \/ valuation

Next ==
    \/ Run
    \/ NewDay

Spec == Init /\ [][Next]_vars
SpecFetch == InitFetch /\ [][Next]_vars
SpecDays == InitDays /\ [][Next]_vars
\* a session that does not run over midnight
SpecValue == InitValue /\ [][Run]_vars

---------------------------------------------------------------------------
(* Properties *)

\* ensure_price is past its cache check for the symbol at hand
Resolving == pc \in {"fetch", "tier1", "tier2", "tier3", "store", "got", "except"}

\* the latest record of the symbol, as the cache stood when ensure_price began
Latest0 == get_cached_price(cache0, sym)

\* that record is dated today
DatedToday0 == Latest0 # {} /\ \A r \in Latest0 : dtparser_parse(r.asof) = today

\* C1: with forceRefresh false and the symbol's latest cache record dated
\* today, resolve returns that record's price and as-of date, served from
\* the cache (fetched_now False), calls the quote client zero times, issues
\* no request and appends nothing to the cache store.
C1_FreshCacheServed ==
    (Resolving /\ ~force /\ DatedToday0) =>
        /\ pc = "got"
        /\ ret.kind = "return"
        /\ ret.fetched_now = FALSE
        /\ \E r \in Latest0 : ret.price = r.price /\ ret.asof = r.asof
        /\ clientCalls = 0
        /\ reqs = <<>>
        /\ prices_daily = cache0

C1_Witness ==
    /\ pc = "got"
    /\ ~force
    /\ DatedToday0
    /\ ret.fetched_now = FALSE
    /\ ret.asof = Stamp(today)
    /\ ALPHAVANTAGE_KEY

\* the symbol had no cache record when ensure_price began
NoRecord0 == RowsOf(cache0, sym) = {}

\* ensure_price has ended, by a return or by an exception
Ended == pc \in {"got", "except"}

\* the latest date of a series
LatestKey(series) == CHOOSE d \in DOMAIN series : \A k \in DOMAIN series : k <= d

\* the as-of string the winning response reports: the snapshot's trading
\* day at tier 1, the greatest date key of the series at tiers 2 and 3
ReportedDay ==
    IF reqs = <<1>> THEN body.day ELSE LatestKey(body.series)

\* C2 as stated: with no cache record, resolve invokes the quote client
\* exactly once and, on success, the store gains exactly one record for the
\* symbol, whose as-of date is today's date.
C2_NewRecordDatedToday ==
    (Ended /\ NoRecord0) =>
        /\ clientCalls = 1
        /\ pc = "got" =>
              /\ Len(prices_daily) = Len(cache0) + 1
              /\ SubSeq(prices_daily, 1, Len(cache0)) = cache0
              /\ prices_daily[Len(prices_daily)].symbol = sym
              /\ dtparser_parse(prices_daily[Len(prices_daily)].asof) = today

\* C2 amended: with no cache record, resolve invokes the quote client
\* exactly once; on success the store gains exactly one record for the
\* symbol, carrying the price and the as-of date the quote client returned
\* (the trading day the provider reports, which need not be today); on
\* failure the store gains nothing.
C2_NewRecordAsFetched ==
    (Ended /\ NoRecord0) =>
        /\ clientCalls = 1
        /\ pc = "got" =>
              /\ prices_daily =
                    Append(cache0, [symbol |-> sym, price |-> quote.price,
                                    asof |-> quote.asof])
              /\ quote.price \in Prices
              /\ quote.asof = ReportedDay
              /\ ret = Returned(quote.price, quote.asof, TRUE)
        /\ pc = "except" => prices_daily = cache0

C2_Witness ==
    /\ pc = "got"
    /\ NoRecord0
    /\ Len(prices_daily) = Len(cache0) + 1
    /\ dtparser_parse(prices_daily[Len(prices_daily)].asof) # today
    /\ reqs = <<1, 2, 3>>

\* C3: during a batch refresh, no window of RateWindow seconds holds more
\* than RateLimit requests to the provider.
C3_RateCeiling ==
    \A k \in 1..Len(reqTimes) :
        Cardinality({j \in 1..k : reqTimes[j] > reqTimes[k] - RateWindow}) <= RateLimit

Count(kind) == Cardinality({k \in 1..Len(results) : results[k].kind = kind})

\* C4: the time slept in a batch is Cooldown seconds for each symbol whose
\* resolution was a real upstream call (fetched_now True) and nothing for
\* the others: N fresh fetches make N pauses, a cache-served resolution none.
C4_PausePerFetch ==
    /\ slept = Cooldown * Count("fetched")
    /\ calls_made = Count("fetched")

C4_Witness ==
    /\ pc = "post"
    /\ Len(results) = 2
    /\ results[1].kind = "cache"
    /\ results[2].kind = "fetched"
    /\ slept = Cooldown

\* C5: a batch never aborts early: when the loop is over every symbol of the
\* list has been processed exactly once, in order; each one whose resolution
\* succeeded has its resolved price in the result and each one whose
\* resolution failed has a diagnostic naming the symbol and the reason.
C5_BatchCompletes ==
    pc = "post" =>
        /\ Len(results) = Len(syms)
        /\ \A k \in 1..Len(syms) :
              /\ results[k].symbol = syms[k]
              /\ results[k].kind # "failed" =>
                    /\ syms[k] \in DOMAIN prices
                    /\ results[k].price \in Prices
                    /\ prices[syms[k]] = results[k].price
              /\ results[k].kind = "failed" =>
                    /\ results[k].err # ""
                    /\ \E e \in 1..Len(errors) : errors[e] = <<syms[k], results[k].err>>
        /\ Len(errors) = Count("failed")

C5_Witness ==
    /\ pc = "post"
    /\ Len(syms) = 2
    /\ results[1].kind = "failed"
    /\ results[2].kind = "fetched"
    /\ syms[1] \notin DOMAIN prices

\* a response that is data: transport success and no diagnostic field
Clean(b) == b.status = "ok" /\ b.diag = {}

\* a tier-1 response with a usable price field
Usable1(b) == Clean(b) /\ b.px \in Prices

\* a tier-2 response with a series whose latest entry has a closing price
Usable2(b) ==
    /\ Clean(b)
    /\ DOMAIN b.series # {}
    /\ b.series[LatestKey(b.series)].close \in Prices

\* a tier-3 response with a series whose latest entry has a price
Usable3(b) ==
    /\ Clean(b)
    /\ DOMAIN b.series # {}
    /\ \/ b.series[LatestKey(b.series)].adj \in Prices
       \/ b.series[LatestKey(b.series)].close \in Prices

\* the price of the latest entry of a tier-3 series: adjusted close first
Price3(series) ==
    LET row == series[LatestKey(series)]
    IN  IF row.adj \in Prices THEN row.adj ELSE row.close

\* C6: when tiers 1 and 2 fail or yield no usable data (so that all three
\* tiers are queried) and tier 3 returns a series (a body without diagnostic
\* field whose latest entry has a price), fetchQuote returns the tier-3
\* value, the price and the date of the latest entry of that series, and no
\* error.
C6_Tier3Value ==
    (reqs = <<1, 2, 3>> /\ Usable3(body)) =>
        /\ pc \in {"store", "got"}
        /\ quote = [price |-> Price3(body.series), asof |-> LatestKey(body.series)]
        /\ ret.kind # "raise"

C6_Witness ==
    /\ pc = "store"
    /\ reqs = <<1, 2, 3>>
    /\ Cardinality(DOMAIN body.series) = 2
    /\ body.series[Iso(1)] = [close |-> 2, adj |-> 2]
    /\ body.series[Iso(2)] = [close |-> 1, adj |-> Absent]
    /\ quote = [price |-> 1, asof |-> Iso(2)]

NoData == "No time series returned by Alpha Vantage"

\* all three tiers were queried and none gave a price
AllTiersFailed == pc = "except" /\ reqs = <<1, 2, 3>>

\* C7 as stated: whenever all three tiers fail, whatever the causes,
\* fetchQuote fails with the 'no time series returned' error.
C7_AlwaysNoData == AllTiersFailed => ret.err = NoData

\* C7 amended: whenever all three tiers fail, fetchQuote fails with the
\* error of tier 3's own failure: the 'no time series returned' error exactly
\* when tier 3's response is a transport success with no diagnostic field
\* and no series, the transport error when tier 3's transport fails, the
\* entitlement, rate-limit or upstream error of a diagnostic field that tier
\* 3's body carries, and a conversion error when the latest entry of tier
\* 3's series has no price.
C7_Tier3ErrorPropagates ==
    AllTiersFailed =>
        /\ ret.kind = "raise"
        /\ ret.err = NoData <=> (Clean(body) /\ DOMAIN body.series = {})
        /\ body.status # "ok" => ret.err = "HTTPError"
        /\ (body.status = "ok" /\ body.diag # {}) =>
              /\ ret.err \in {"API info", "Rate limit hit", "API error"}
              /\ ret.err = "API info" => "Information" \in body.diag
              /\ ret.err = "Rate limit hit" => "Note" \in body.diag
              /\ ret.err = "API error" => "Error Message" \in body.diag
        /\ (Clean(body) /\ DOMAIN body.series # {}) => ret.err = "TypeError"

C7_Witness ==
    /\ AllTiersFailed
    /\ body.diag = {"Note"}
    /\ body.series = NoSeries
    /\ ret.err = "Rate limit hit"

\* C8: no failure at tier 1 or tier 2 ends fetchQuote: whatever the cause
\* (a Note, Information or Error Message field, a transport error, a
\* malformed or empty body) the next tier is queried, and an error reaches
\* the caller only after tier 3 was queried.
C8_FallThrough ==
    /\ (reqs = <<1>> /\ ~Usable1(body)) => pc = "tier2"
    /\ (reqs = <<1, 2>> /\ ~Usable2(body)) => pc = "tier3"
    /\ (pc = "except" /\ ALPHAVANTAGE_KEY) => reqs = <<1, 2, 3>>

C8_Witness ==
    /\ pc = "tier2"
    /\ reqs = <<1>>
    /\ "Note" \in body.diag
    /\ body.px \in Prices

\* C9: with no provider key configured, fetchQuote fails with the
\* missing-key error before any request: no tier is queried, and the error
\* is not swallowed.
C9_NoKeyNoRequest ==
    ~ALPHAVANTAGE_KEY =>
        /\ reqTimes = <<>>
        /\ reqs = <<>>
        /\ pc \notin {"tier1", "tier2", "tier3", "store"}
        /\ clientCalls = 1 =>
              /\ pc = "except"
              /\ ret.kind = "raise"
              /\ ret.err = "Alpha Vantage key missing"

C9_Witness ==
    /\ ~ALPHAVANTAGE_KEY
    /\ pc = "except"
    /\ clientCalls = 1

\* the quote client was called and gave no quote
FetchFailed == Ended /\ clientCalls = 1 /\ quote = NoQuote

\* C10: when the quote client fails during resolve, the error reaches the
\* caller, resolve returns no cached value, even when a stale record of the
\* symbol exists, and the cache store is left as it was.
C10_FailurePropagates ==
    FetchFailed =>
        /\ pc = "except"
        /\ ret.kind = "raise"
        /\ ret.err # ""
        /\ ret.price = NoPrice
        /\ prices_daily = cache0

C10_Witness ==
    /\ FetchFailed
    /\ pc = "except"
    /\ ~force
    /\ cached # NoRow
    /\ cached.symbol = sym
    /\ reqs = <<1, 2, 3>>

\* C11: the price cache is append-only: every step of resolve and batch
\* refresh (cache hit, successful or failed fetch, forced refresh) leaves
\* every record that existed in its place with its symbol, price and as-of
\* date; the table only grows, by records inserted at its end.
C11_AppendOnly ==
    [][/\ Len(prices_daily') >= Len(prices_daily)
       /\ SubSeq(prices_daily', 1, Len(prices_daily)) = prices_daily]_vars

\* a forced refresh has added a second record with the symbol and the as-of
\* date of a record the table already had
C11_Witness ==
    /\ pc = "got"
    /\ runs = 2
    /\ force
    /\ Len(cache0) >= 2
    /\ prices_daily = Append(cache0, prices_daily[Len(prices_daily)])
    /\ \E k \in 1..Len(cache0) :
          /\ cache0[k].symbol = prices_daily[Len(prices_daily)].symbol
          /\ cache0[k].asof = prices_daily[Len(prices_daily)].asof
          /\ cache0[k].price # prices_daily[Len(prices_daily)].price

\* the latest record of the symbol has an as-of string that is no date
Unparseable0 == Latest0 # {} /\ \A r \in Latest0 : r.asof \in {EmptyStr, JunkStr}

\* the errors fetch_price_alpha_vantage raises
FetchErrors ==
    {"Alpha Vantage key missing", "HTTPError", "API info", "Rate limit hit",
     "API error", "ValueError", "TypeError", NoData}

\* C12: when the latest cache record of the symbol has an unparseable as-of
\* date and forceRefresh is false, resolve reads the record, does not fail
\* on it and does not serve it: the quote client is invoked once, as on a
\* cache miss; a success is stored and returned as fetched, and the only
\* failure is one of the quote client.
C12_UnparseableAsAbsent ==
    (Resolving /\ ~force /\ Unparseable0) =>
        /\ cached \in Latest0
        /\ pc = "fetch" => (clientCalls = 0 /\ ret = NoRet)
        /\ pc # "fetch" => clientCalls = 1
        /\ pc = "got" =>
              /\ ret = Returned(quote.price, quote.asof, TRUE)
              /\ quote.price \in Prices
              /\ prices_daily =
                    Append(cache0, [symbol |-> sym, price |-> quote.price,
                                    asof |-> quote.asof])
        /\ pc = "except" =>
              /\ ret.kind = "raise"
              /\ ret.err \in FetchErrors
              /\ prices_daily = cache0

C12_Witness ==
    /\ pc = "got"
    /\ ~force
    /\ Unparseable0
    /\ Len(cache0) = 2
    /\ cached.asof = JunkStr
    /\ ret.fetched_now
    /\ clientCalls = 1

\* C13: for each symbol whose resolution failed in the batch, the quote
\* client was invoked once for it and is not invoked again (the symbol has
\* one outcome and is not the one being resolved), and the symbol has the
\* price and the as-of date of its latest cached record, whatever its date;
\* it has no price only if it has no cached record at all.
C13_StaleFallback ==
    \A k \in 1..Len(results) :
        results[k].kind = "failed" =>
            LET s == results[k].symbol
                latest == get_cached_price(prices_daily, s)
            IN  /\ results[k].calls = 1
                /\ s = syms[k]
                /\ \A j \in 1..Len(results) : results[j].symbol = s => j = k
                /\ i > k
                /\ IF latest = {}
                   THEN /\ s \notin DOMAIN prices
                        /\ s \notin DOMAIN last_asof
                        /\ RowsOf(prices_daily, s) = {}
                   ELSE /\ s \in DOMAIN prices
                        /\ \E r \in latest :
                              prices[s] = r.price /\ last_asof[s] = r.asof

\* a failed symbol with two records of earlier days has the later one
C13_Witness ==
    /\ pc = "post"
    /\ today = 2
    /\ results[1].kind = "failed"
    /\ Len(prices_daily) = 2
    /\ prices_daily[1].asof = Stamp(1)
    /\ prices_daily[2].asof = Iso(1)
    /\ prices_daily[1].price # prices_daily[2].price
    /\ prices[syms[1]] = prices_daily[1].price
    /\ last_asof[syms[1]] = Stamp(1)

\* the loop is over and every symbol's resolution failed
AllFailed ==
    /\ pc = "value"
    /\ Len(results) = Len(syms)
    /\ \A k \in 1..Len(results) : results[k].kind = "failed"

\* C14: whenever a batch ends with zero successful resolutions, a
\* batch-level warning is shown: the 'no key configured' message exactly when
\* the key is absent, the 'no prices fetched' message otherwise.
C14_BatchDiagnostic ==
    AllFailed =>
        /\ warning # ""
        /\ warning = "No Alpha Vantage key configured" <=> ~ALPHAVANTAGE_KEY
        /\ warning = "No prices fetched" <=> ALPHAVANTAGE_KEY

\* C15: when forceRefresh is true or the symbol's latest cache record is not
\* dated today (or there is none), resolve invokes the quote client exactly
\* once whatever the cache holds; on success exactly one record with the
\* fetched price and as-of date is appended before resolve returns, and
\* resolve returns that price and as-of date with fetched_now True; on
\* failure nothing is appended.
C15_FetchOnce ==
    (Resolving /\ (force \/ ~DatedToday0)) =>
        /\ pc = "fetch" => clientCalls = 0
        /\ pc # "fetch" => clientCalls = 1
        /\ pc # "got" => prices_daily = cache0
        /\ pc = "got" =>
              /\ quote.price \in Prices
              /\ quote.asof = ReportedDay
              /\ prices_daily =
                    Append(cache0, [symbol |-> sym, price |-> quote.price,
                                    asof |-> quote.asof])
              /\ ret.kind = "return"
              /\ ret.price = quote.price
              /\ ret.asof = quote.asof
              /\ ret.fetched_now = TRUE

\* a forced refresh of a symbol whose latest record is dated today
C15_Witness ==
    /\ pc = "got"
    /\ force
    /\ DatedToday0
    /\ clientCalls = 1
    /\ ret.fetched_now
    /\ Len(prices_daily) = Len(cache0) + 1
    /\ ret.price \notin {r.price : r \in Latest0}

\* the columns and the totals of the batch have been computed
Valued == pc = "idle" /\ df # <<>>

Abs(x) == IF x < 0 THEN -x ELSE x

\* the holdings that have a price
Priced == {k \in 1..Len(df) : df[k].last_price \in Prices}

\* (p - c) * q of row k, in 1/(Tick * Tick) hundredths
ExactPnl(k) ==
    (df[k].last_price * Tick - cost_basis[syms[k]]) * quantity[syms[k]]

\* C16 as stated: for a holding with quantity q and cost basis c whose
\* symbol has the resolved price p, the computed market value is q * p and
\* the computed unrealized P&L is (p - c) * q.
C16_ExactValuation ==
    Valued =>
        \A k \in Priced :
            /\ df[k].market_value = quantity[syms[k]] * df[k].last_price
            /\ df[k].unrealized_pnl * Tick * Tick = ExactPnl(k)

\* C16 amended: the computed market value is q * p, unrounded; the computed
\* P&L per share is p - c to the nearest fourth decimal and the computed
\* unrealized P&L is that rounded difference times q, to the nearest second
\* decimal; it is (p - c) * q when neither rounding cuts anything.
C16_RoundedValuation ==
    Valued =>
        \A k \in Priced :
            LET q == quantity[syms[k]]
                c == cost_basis[syms[k]]
                p == df[k].last_price
            IN  /\ df[k].symbol = syms[k]
                /\ p = prices[syms[k]]
                /\ df[k].market_value = q * p
                /\ 2 * Abs(df[k].pnl_per_share * Tick - (p * Tick - c)) <= Tick
                /\ 2 * Abs(df[k].unrealized_pnl * Tick - df[k].pnl_per_share * q) <= Tick
                /\ ((p * Tick - c) % Tick = 0 /\ ((p * Tick - c) * q) % (Tick * Tick) = 0)
                      => df[k].unrealized_pnl * Tick * Tick = ExactPnl(k)

\* a holding whose P&L per share was rounded up to the fourth decimal and
\* whose P&L was rounded up from the half to the second
C16_Witness ==
    /\ Valued
    /\ 1 \in Priced
    /\ quantity[syms[1]] = 2
    /\ cost_basis[syms[1]] = 1
    /\ df[1].last_price = 1
    /\ df[1].market_value = 2
    /\ df[1].pnl_per_share = 1
    /\ df[1].unrealized_pnl = 1

\* an earlier resolve of the symbol succeeded by fetching, today
FetchedEarlier == sym \in DOMAIN fetched_today

\* the resolve ended served from the cache, without a quote-client call
Served == pc = "got" /\ ret.fetched_now = FALSE /\ clientCalls = 0

DiagErrors(diag) ==
    {e \in {"API info", "Rate limit hit", "API error"} :
        \/ e = "API info" /\ "Information" \in diag
        \/ e = "Rate limit hit" /\ "Note" \in diag
        \/ e = "API error" /\ "Error Message" \in diag}

\* the last response is a transport success carrying a diagnostic field
Diagnosed == reqs # <<>> /\ body.status = "ok" /\ body.diag # {}

\* C18: on every tier, a body that carries an Information, Note or Error
\* Message field is never used as data, even when the transport succeeded
\* and the body has price or series fields beside it: no price is returned
\* from it, the tier fails with the error of one of the fields present, the
\* next tier is queried after tiers 1 and 2 and the error reaches the caller
\* after tier 3.
C18_DiagnosticNotData ==
    Diagnosed =>
        /\ pc \notin {"store", "got"}
        /\ quote = NoQuote
        /\ prices_daily = cache0
        /\ _call(body) \in DiagErrors(body.diag)
        /\ reqs = <<1>> => pc = "tier2"
        /\ reqs = <<1, 2>> => pc = "tier3"
        /\ reqs = <<1, 2, 3>> =>
              /\ pc = "except"
              /\ ret.kind = "raise"
              /\ ret.err \in DiagErrors(body.diag)

\* tier 2 answers with an entitlement notice beside a full series
C18_Witness ==
    /\ pc = "tier3"
    /\ reqs = <<1, 2>>
    /\ body.status = "ok"
    /\ body.diag = {"Information"}
    /\ body.series = OneSeries

\* the usable response of tier t, and the quote it gives
Usable(t, b) ==
    IF t = 1 THEN Usable1(b) ELSE IF t = 2 THEN Usable2(b) ELSE Usable3(b)
QuoteOf(t, b) ==
    IF t = 1 THEN [price |-> b.px, asof |-> b.day]
    ELSE IF t = 2
    THEN [price |-> b.series[LatestKey(b.series)].close, asof |-> LatestKey(b.series)]
    ELSE [price |-> Price3(b.series), asof |-> LatestKey(b.series)]

\* C19: fetchQuote queries the tiers in the order 1, 2, 3 and the first
\* usable one wins: each request is for the tier after the last one queried,
\* at most 3 are made, tier 2 or 3 is queried only when the tier before gave
\* no usable response, none is queried once a price is returned, and a
\* usable response ends the fetch with its price and date.
C19_TierOrder ==
    [][(reqs' # reqs /\ reqs' # <<>>) =>
          /\ reqs' = Append(reqs, Len(reqs) + 1)
          /\ Len(reqs') <= 3
          /\ quote = NoQuote
          /\ pc \in {"tier1", "tier2", "tier3"}
          /\ reqs # <<>> => ~Usable(Len(reqs), body)
          /\ IF Usable(Len(reqs'), body')
             THEN pc' = "store" /\ quote' = QuoteOf(Len(reqs'), body')
             ELSE pc' # "store" /\ quote' = NoQuote]_vars

\* tier 2 wins with the close of the later of two days
C19_Witness ==
    /\ pc = "store"
    /\ reqs = <<1, 2>>
    /\ Cardinality(DOMAIN body.series) = 2
    /\ quote = [price |-> body.series[Iso(2)].close, asof |-> Iso(2)]
    /\ body.series[Iso(1)].close # body.series[Iso(2)].close

\* the holdings that have no price at all
Unpriced == {k \in 1..Len(df) : df[k].last_price = NaN}

\* the sum of the first n entries of a column
RECURSIVE SumTo(_, _)
SumTo(column, n) == IF n = 0 THEN 0 ELSE column[n] + SumTo(column, n - 1)

\* each total is the sum of its column over every holding
TotalsOverAll ==
    /\ totals.total_value = SumTo([k \in 1..Len(df) |-> df[k].market_value], Len(df))
    /\ totals.total_pnl = SumTo([k \in 1..Len(df) |-> df[k].unrealized_pnl], Len(df))
    /\ totals.total_cost =
          SumTo([k \in 1..Len(df) |-> quantity[syms[k]] * cost_basis[syms[k]]], Len(df))

\* C20 as stated: for a holding whose symbol has no price at all, the price
\* is taken as 0: its market value is 0, its unrealized P&L is
\* -(cost basis * quantity), and both are included in the totals.
C20_ZeroPrice ==
    Valued =>
        /\ \A k \in Unpriced :
              /\ df[k].market_value = 0
              /\ df[k].unrealized_pnl * Tick * Tick =
                    -(cost_basis[syms[k]] * quantity[syms[k]])
        /\ TotalsOverAll

\* C20 amended: a holding has no price exactly when its resolution failed
\* and it has no cached record; its price is then taken as 0: its market
\* value is 0, its P&L per share is -(cost basis) to the nearest fourth
\* decimal and its unrealized P&L is that times the quantity, to the nearest
\* second decimal, which is -(cost basis * quantity) when neither rounding
\* cuts anything; these values are included in the totals.
C20_ZeroPriceRounded ==
    Valued =>
        /\ \A k \in 1..Len(df) :
              k \in Unpriced <=>
                 (results[k].kind = "failed" /\ RowsOf(prices_daily, syms[k]) = {})
        /\ \A k \in Unpriced :
              LET q == quantity[syms[k]]
                  c == cost_basis[syms[k]]
              IN  /\ syms[k] \notin DOMAIN prices
                  /\ df[k].market_value = 0
                  /\ 2 * Abs(df[k].pnl_per_share * Tick + c) <= Tick
                  /\ 2 * Abs(df[k].unrealized_pnl * Tick - df[k].pnl_per_share * q) <= Tick
                  /\ df[k].unrealized_pnl <= 0
                  /\ (c % Tick = 0 /\ (c * q) % (Tick * Tick) = 0)
                        => df[k].unrealized_pnl * Tick * Tick = -(c * q)
        /\ TotalsOverAll

\* the first of two holdings has no price and a rounded loss, the second
\* has a price; the totals take both
C20_Witness ==
    /\ Valued
    /\ Len(df) = 2
    /\ Unpriced = {1}
    /\ quantity[syms[1]] = 2
    /\ cost_basis[syms[1]] = 2
    /\ df[1].unrealized_pnl = -1
    /\ df[2].market_value = 4
    /\ totals.total_value = 4
    /\ totals.total_cost > 4
    /\ totals.total_pnl = df[2].unrealized_pnl - 1

====
